---- MODULE Spec2Model ----
(***************************************************************************)
(* Deferred spawn queue of server/src/entity/spawn.rs: producers call      *)
(* Spawner::spawn_item, which builds a SpawnRequest and pushes it on a     *)
(* crossbeam SegQueue; SpawnerSystem::run pops requests until the queue is *)
(* empty, creating one entity per request and publishing one               *)
(* EntitySpawnEvent per request.                                           *)
(*                                                                         *)
(* Each statement of run is one step, so that producers (which only need   *)
(* Read<Spawner>) can interleave with a running drain.  SegQueue push and  *)
(* pop are linearizable and each is one step.                              *)
(***************************************************************************)
EXTENDS Integers, Sequences, FiniteSets, TLC

\* ------------------------------------------------------------------ bounds
NumProducers == 2
MaxSpawns == 3

Producers == 1..NumProducers

\* ------------------------------------------------------------- value sets
\* Position and Vec3 values are copied verbatim by the code; integer triples
\* stand for them (see Inputs).
\* EntityType: Item is the only kind with a marker case; "Unsupported"
\* stands for every other variant (the `_` arm of the match).
EntityTypes == {"Item", "Unsupported"}

\* Option<T>: None is <<>>, Some(x) is <<x>>.
None == <<>>
Some(x) == <<x>>

\* ----------------------------------------------------------- pure helpers
\* metadata::Item::default(): no item set.
MetaItemDefault == [item |-> None]

\* metadata::Item::set_item
SetItem(meta_item, value) == [meta_item EXCEPT !.item = value]

\* Metadata::Item(meta_item)
MetadataItem(meta_item) == [tag |-> "Item", data |-> meta_item]

\* Extra::Item(item)
ExtraItem(item) == [tag |-> "Item", item |-> item]

\* spawn_item that leaves the velocity at its default.
SpawnItemRequestNoVelocity(position, velocity, item) ==
    [ty |-> "Item",
     position |-> position,
     velocity |-> <<0, 0, 0>>,
     meta |-> MetadataItem(SetItem(MetaItemDefault, Some(item))),
     extra |-> ExtraItem(item)]

\* spawn_item that never puts the stack into the metadata.
SpawnItemRequestNoMeta(position, velocity, item) ==
    [ty |-> "Item",
     position |-> position,
     velocity |-> velocity,
     meta |-> MetadataItem(MetaItemDefault),
     extra |-> ExtraItem(item)]

\* The request built by spawn_item.
SpawnItemRequest(position, velocity, item) ==
    [ty |-> "Item",
     position |-> position,
     velocity |-> velocity,
     meta |-> MetadataItem(SetItem(MetaItemDefault, Some(item))),
     extra |-> ExtraItem(item)]

\* The arguments producers pass to spawn_item: the triple of the tests and
\* one that differs from it in position, velocity and item stack.
Inputs ==
    {[position |-> <<0, 10, 1>>, velocity |-> <<104, 4, 10>>,
      item |-> [ty |-> "EnderPearl", amount |-> 4]],
     [position |-> <<5, 0, 0>>, velocity |-> <<0, 0, 7>>,
      item |-> [ty |-> "Stone", amount |-> 1]]}

\* SpawnRequest values whose kind has no marker case.
UnsupportedRequests ==
    {[SpawnItemRequest(i.position, i.velocity, i.item) EXCEPT !.ty = t] :
        i \in {j \in Inputs : j.item.amount = 4},
        t \in EntityTypes \ {"Item"}}

\* A push that writes over the newest slot instead of taking a new one.
PushOverwrite(q, r) == IF q = <<>> THEN <<r>> ELSE [q EXCEPT ![Len(q)] = r]

\* A push that puts the request in front of the older ones.
PushFront(q, r) == <<r>> \o q

\* A push on a queue of fixed capacity, which refuses a request when full.
PushBounded(q, r) == IF Len(q) >= 2 THEN q ELSE Append(q, r)

\* A push on a ring that evicts the oldest request when two are pending.
PushEvict(q, r) == IF Len(q) >= 2 THEN Append(Tail(q), r) ELSE Append(q, r)

\* A push that enqueues the request twice.
PushTwice(q, r) == Append(Append(q, r), r)

\* SegQueue::push
Push(q, r) == Append(q, r)

\* A pop that hands out a request although the queue is empty.
PopPhantom(q) ==
    IF q = <<>>
    THEN [ok |-> TRUE,
          value |-> Some(SpawnItemRequest(<<0, 0, 0>>, <<0, 0, 0>>,
                                          [ty |-> "Stone", amount |-> 1])),
          rest |-> q]
    ELSE [ok |-> TRUE, value |-> Some(Head(q)), rest |-> Tail(q)]

\* A pop that also discards the request behind the one it returns.
PopSkip(q) ==
    IF q = <<>> THEN [ok |-> FALSE, value |-> None, rest |-> q]
    ELSE [ok |-> TRUE, value |-> Some(Head(q)),
          rest |-> IF Len(q) >= 2 THEN Tail(Tail(q)) ELSE Tail(q)]

\* A pop that returns the newest request.
PopNewest(q) ==
    IF q = <<>> THEN [ok |-> FALSE, value |-> None, rest |-> q]
    ELSE [ok |-> TRUE, value |-> Some(q[Len(q)]), rest |-> SubSeq(q, 1, Len(q) - 1)]

\* A pop that reports the queue empty when one request is left.
PopLeavesLast(q) ==
    IF Len(q) <= 1 THEN [ok |-> FALSE, value |-> None, rest |-> q]
    ELSE [ok |-> TRUE, value |-> Some(Head(q)), rest |-> Tail(q)]

\* SegQueue::pop: Err on an empty queue, otherwise the oldest element.
Pop(q) ==
    IF q = <<>> THEN [ok |-> FALSE, value |-> None, rest |-> q]
    ELSE [ok |-> TRUE, value |-> Some(Head(q)), rest |-> Tail(q)]

\* An allocator that hands out the first identity again.
CreateReuse(alive) == 1

\* Entities::create: an identity that is not alive yet.
Create(alive) == CHOOSE e \in 1..(Cardinality(alive) + 1) : e \notin alive

\* An insert that reports success without storing the component.
InsertDropped(table, alive, e, c) ==
    IF e \in alive THEN [ok |-> TRUE, table |-> table]
    ELSE [ok |-> FALSE, table |-> table]

\* WriteStorage::insert: Err when the entity is not alive, otherwise the
\* component is stored (replacing an older one).
Insert(table, alive, e, c) ==
    IF e \in alive THEN [ok |-> TRUE, table |-> (e :> c) @@ table]
    ELSE [ok |-> FALSE, table |-> table]

\* A position component whose `previous` is left at the origin.
MkPositionComponentStale(request) ==
    [current |-> request.position, previous |-> <<0, 0, 0>>]

\* PositionComponent built by run.
MkPositionComponent(request) ==
    [current |-> request.position, previous |-> request.position]

\* VelocityComponent(request.velocity)
MkVelocityComponent(request) == request.velocity

\* A match whose catch-all arm also attaches the item marker.
MarkerCatchAll(ty) == TRUE

\* The arm of `match request.ty` that attaches a marker.
MarkerImplemented(ty) == ty = "Item"

\* An event that always names the first identity.
MkSpawnEventFirst(e, request) == [entity |-> 1, ty |-> request.ty]

\* EntitySpawnEvent { entity, ty }
MkSpawnEvent(e, request) == [entity |-> e, ty |-> request.ty]

\* A channel that keeps only the latest event.
SingleWriteLatest(channel, event) == <<event>>

\* EventChannel::single_write
SingleWrite(channel, event) == Append(channel, event)

\* ------------------------------------------------------------------ state
VARIABLES
    queue,          \* Spawner.queue
    prod,           \* per producer: position in spawn_item and its locals
    dpc,            \* position of SpawnerSystem::run
    request,        \* run's local `request` (Option)
    entity,         \* run's local `entity` (Option)
    entities,       \* identities alive in the store
    positions,      \* WriteStorage<PositionComponent>
    velocities,     \* WriteStorage<VelocityComponent>
    metadatas,      \* WriteStorage<Metadata>
    types,          \* WriteStorage<EntityType>
    item_markers,   \* WriteStorage<ItemMarker>
    spawn_events,   \* EventChannel<EntitySpawnEvent>
    \* history variables (not program state)
    calls,          \* inputs of the spawn_item calls, in call order
    pushed,         \* requests in the order their push completed
    popped,         \* requests in the order they were popped
    created,        \* identities in the order they were created
    snap,           \* queue, entities, events, pushes and pops when the current
                    \* run began
    during          \* pushes completed between the start of the current run
                    \* and the pop that found the queue empty

storeVars == <<entities, positions, velocities, metadatas, types, item_markers>>
drainLocals == <<request, entity>>
histVars == <<calls, pushed, popped, created, snap, during>>
vars == <<queue, prod, dpc, request, entity, entities, positions, velocities,
          metadatas, types, item_markers, spawn_events,
          calls, pushed, popped, created, snap, during>>

\* Appends completed or under way (bounds the model).
Appends == Len(pushed) + Cardinality({p \in Producers : prod[p].pc = "push"})

EmptyTable == [e \in {} |-> None]

Init ==
    /\ queue = <<>>
    /\ prod = [p \in Producers |-> [pc |-> "idle", request |-> None]]
    /\ dpc = "idle"
    /\ request = None
    /\ entity = None
    /\ entities = {}
    /\ positions = EmptyTable
    /\ velocities = EmptyTable
    /\ metadatas = EmptyTable
    /\ types = EmptyTable
    /\ item_markers = EmptyTable
    /\ spawn_events = <<>>
    /\ calls = <<>>
    /\ pushed = <<>>
    /\ popped = <<>>
    /\ created = <<>>
    /\ snap = [queue |-> <<>>, entities |-> {}, events |-> <<>>, npushed |-> 0,
               npopped |-> 0]
    /\ during = 0

\* -------------------------------------------------------------- producers
\* spawn_item, up to the push: builds `meta` and `request`.
SpawnItemBuild(p, position, velocity, item) ==
    /\ prod[p].pc = "idle"
    /\ Appends < MaxSpawns
    /\ prod' = [prod EXCEPT ![p] =
                  [pc |-> "push",
                   request |-> Some(SpawnItemRequest(position, velocity, item))]]
    /\ calls' = Append(calls, [position |-> position, velocity |-> velocity,
                               item |-> item])
    /\ UNCHANGED <<queue, dpc, drainLocals, storeVars, spawn_events,
                   pushed, popped, created, snap, during>>

\* spawn_item: self.queue.push(request), then return.
SpawnItemPush(p) ==
    /\ prod[p].pc = "push"
    /\ queue' = Push(queue, prod[p].request[1])
    /\ prod' = [prod EXCEPT ![p] = [pc |-> "idle", request |-> None]]
    /\ pushed' = Append(pushed, prod[p].request[1])
    /\ during' = IF dpc \in {"idle", "return"} THEN during ELSE during + 1
    /\ UNCHANGED <<dpc, drainLocals, storeVars, spawn_events,
                   calls, popped, created, snap>>

\* ------------------------------------------------------------------ drain
\* The dispatcher invokes run.
DrainStart ==
    /\ dpc = "idle"
    /\ dpc' = "pop"
    /\ snap' = [queue |-> queue, entities |-> entities, events |-> spawn_events,
                npushed |-> Len(pushed), npopped |-> Len(popped)]
    /\ during' = 0
    /\ UNCHANGED <<queue, prod, drainLocals, storeVars, spawn_events,
                   calls, pushed, popped, created>>

\* while let Ok(request) = spawner.queue.pop()
DrainPop ==
    /\ dpc = "pop"
    /\ LET res == Pop(queue) IN
        /\ queue' = res.rest
        /\ IF res.ok
           THEN /\ request' = res.value
                /\ popped' = Append(popped, res.value[1])
                /\ dpc' = "create"
           ELSE /\ request' = None
                /\ popped' = popped
                /\ dpc' = "return"
    /\ UNCHANGED <<prod, entity, storeVars, spawn_events,
                   calls, pushed, created, snap, during>>

\* let entity = entities.create();
DrainCreate ==
    /\ dpc = "create"
    /\ LET e == Create(entities) IN
        /\ entity' = Some(e)
        /\ entities' = entities \cup {e}
        /\ created' = Append(created, e)
    /\ dpc' = "positions"
    /\ UNCHANGED <<queue, prod, request, positions, velocities, metadatas,
                   types, item_markers, spawn_events,
                   calls, pushed, popped, snap, during>>

\* positions.insert(entity, PositionComponent {..}).unwrap();
DrainInsertPosition ==
    /\ dpc = "positions"
    /\ LET res == Insert(positions, entities, entity[1],
                         MkPositionComponent(request[1])) IN
        /\ positions' = res.table
        /\ dpc' = IF res.ok THEN "velocities" ELSE "panicked"
    /\ UNCHANGED <<queue, prod, drainLocals, entities, velocities, metadatas,
                   types, item_markers, spawn_events, histVars>>

\* velocities.insert(entity, VelocityComponent(request.velocity)).unwrap();
DrainInsertVelocity ==
    /\ dpc = "velocities"
    /\ LET res == Insert(velocities, entities, entity[1],
                         MkVelocityComponent(request[1])) IN
        /\ velocities' = res.table
        /\ dpc' = IF res.ok THEN "metadatas" ELSE "panicked"
    /\ UNCHANGED <<queue, prod, drainLocals, entities, positions, metadatas,
                   types, item_markers, spawn_events, histVars>>

\* metadatas.insert(entity, request.meta).unwrap();
DrainInsertMetadata ==
    /\ dpc = "metadatas"
    /\ LET res == Insert(metadatas, entities, entity[1], request[1].meta) IN
        /\ metadatas' = res.table
        /\ dpc' = IF res.ok THEN "types" ELSE "panicked"
    /\ UNCHANGED <<queue, prod, drainLocals, entities, positions, velocities,
                   types, item_markers, spawn_events, histVars>>

\* types.insert(entity, request.ty).unwrap();
DrainInsertType ==
    /\ dpc = "types"
    /\ LET res == Insert(types, entities, entity[1], request[1].ty) IN
        /\ types' = res.table
        /\ dpc' = IF res.ok THEN "marker" ELSE "panicked"
    /\ UNCHANGED <<queue, prod, drainLocals, entities, positions, velocities,
                   metadatas, item_markers, spawn_events, histVars>>

\* A loop body that goes on to the event without attaching the marker.
DrainMarkerSkipped ==
    /\ dpc = "marker"
    /\ dpc' = "event"
    /\ UNCHANGED <<queue, prod, drainLocals, storeVars, spawn_events, histVars>>

\* match request.ty { Item => item_markers.insert(..).unwrap(),
\*                    _ => unimplemented!() }
DrainMarker ==
    /\ dpc = "marker"
    /\ IF MarkerImplemented(request[1].ty)
       THEN LET res == Insert(item_markers, entities, entity[1], "ItemMarker") IN
              /\ item_markers' = res.table
              /\ dpc' = IF res.ok THEN "event" ELSE "panicked"
       ELSE /\ item_markers' = item_markers
            /\ dpc' = "panicked"
    /\ UNCHANGED <<queue, prod, drainLocals, entities, positions, velocities,
                   metadatas, types, spawn_events, histVars>>

\* spawn_events.single_write(EntitySpawnEvent {..}); end of the loop body.
DrainEvent ==
    /\ dpc = "event"
    /\ spawn_events' = SingleWrite(spawn_events, MkSpawnEvent(entity[1], request[1]))
    /\ request' = None
    /\ entity' = None
    /\ dpc' = "pop"
    /\ UNCHANGED <<queue, prod, storeVars, histVars>>

\* The loop has ended; run returns to the dispatcher.
DrainReturn ==
    /\ dpc = "return"
    /\ dpc' = "idle"
    /\ UNCHANGED <<queue, prod, drainLocals, storeVars, spawn_events, histVars>>

Drain ==
    \/ DrainStart
    \/ DrainPop
    \/ DrainCreate
    \/ DrainInsertPosition
    \/ DrainInsertVelocity
    \/ DrainInsertMetadata
    \/ DrainInsertType
    \/ DrainMarker
    \/ DrainEvent
    \/ DrainReturn

Produce ==
    \/ \E p \in Producers, i \in Inputs :
          SpawnItemBuild(p, i.position, i.velocity, i.item)
    \/ \E p \in Producers : SpawnItemPush(p)

Next == Produce \/ Drain

Spec == Init /\ [][Next]_vars

\* The dispatcher keeps invoking run and a started run keeps executing.
FairSpec == Spec /\ WF_vars(Drain)

\* A request of any kind placed on the queue by code inside the module
\* (the queue field and SpawnRequest are private to spawn.rs; the tests
\* reach them directly).  This is how a kind without a marker case reaches
\* the drain.
QueuePush(r) ==
    /\ Appends < MaxSpawns
    /\ queue' = Push(queue, r)
    /\ pushed' = Append(pushed, r)
    /\ during' = IF dpc \in {"idle", "return"} THEN during ELSE during + 1
    /\ UNCHANGED <<prod, dpc, drainLocals, storeVars, spawn_events,
                   calls, popped, created, snap>>

NextAny == Next \/ \E r \in UnsupportedRequests : QueuePush(r)

SpecAny == Init /\ [][NextAny]_vars

\* ------------------------------------------------------------ properties
\* The request r is the one spawn_item builds for the input c.
Matches(r, c) ==
    /\ r.ty = "Item"
    /\ r.position = c.position
    /\ r.velocity = c.velocity
    /\ r.meta.tag = "Item"
    /\ r.meta.data.item = Some(c.item)

Distinct(seq) == \A i, j \in 1..Len(seq) : i # j => seq[i] # seq[j]

\* No push completed while the current run was popping.
Unraced == during = 0

AllReturned == \A p \in Producers : prod[p].pc = "idle"

\* The entity e carries all five components.
HasAll(e) ==
    /\ e \in DOMAIN positions
    /\ e \in DOMAIN velocities
    /\ e \in DOMAIN metadatas
    /\ e \in DOMAIN types
    /\ e \in DOMAIN item_markers

\* The entity e carries all five components, set from the request r.
BuiltFrom(e, r) ==
    /\ HasAll(e)
    /\ positions[e].current = r.position
    /\ velocities[e] = r.velocity
    /\ metadatas[e] = r.meta
    /\ types[e] = r.ty
    /\ item_markers[e] = "ItemMarker"

\* C1 - Producer isolation: once N concurrent spawn_item calls have all
\* returned, the requests that are or were poppable (those still queued plus
\* those already popped) are exactly N, and each input is matched by as many
\* of them as there were calls with that input: by exactly one when the
\* inputs are pairwise distinct.  Before any pop, all N are in the queue.
C1_ProducerIsolation ==
    AllReturned =>
        LET all == popped \o queue IN
        /\ Len(all) = Len(calls)
        /\ \A k \in 1..Len(calls) :
              Cardinality({i \in 1..Len(all) : Matches(all[i], calls[k])}) =
                  Cardinality({j \in 1..Len(calls) : calls[j] = calls[k]})
        /\ Distinct(calls) =>
              \A k \in 1..Len(calls) :
                  Cardinality({i \in 1..Len(all) : Matches(all[i], calls[k])}) = 1

\* Two producers were inside spawn_item at once with different inputs, their
\* pushes completed in the opposite order of their calls, and nothing has
\* been popped.
C1_Witness ==
    /\ AllReturned /\ Distinct(calls)
    /\ popped = <<>>
    /\ Len(calls) = 2
    /\ Len(queue) = 2
    /\ ~Matches(queue[1], calls[1])

\* C2 - Field round-trip: after a single spawn_item(p, v, s) on an empty
\* Spawner, the request returned by the first pop has kind Item, position p,
\* velocity v and metadata carrying exactly the stack s.
C2_FieldRoundTrip ==
    (Len(calls) = 1 /\ Len(popped) = 1) =>
        /\ popped[1].ty = "Item"
        /\ popped[1].position = calls[1].position
        /\ popped[1].velocity = calls[1].velocity
        /\ popped[1].meta.tag = "Item"
        /\ popped[1].meta.data.item = Some(calls[1].item)

C2_Witness ==
    /\ Len(calls) = 1 /\ Len(popped) = 1
    /\ calls[1].velocity = <<104, 4, 10>>
    /\ calls[1].item = [ty |-> "EnderPearl", amount |-> 4]
    /\ request = Some(popped[1])

\* C3 - Drain produces one entity per request: a run that began with K
\* requests queued and was not raced by a producer has, on return, created
\* exactly K new entities and published exactly K events; the i-th new event
\* names a new entity that carries all five components set from the i-th
\* queued request.
C3_DrainOnePerRequest ==
    (dpc \in {"return", "idle"} /\ Unraced) =>
        LET K == Len(snap.queue)
            base == Len(snap.events)
            new == entities \ snap.entities
        IN
        /\ Cardinality(new) = K
        /\ Len(spawn_events) = base + K
        /\ \A i \in 1..K :
              /\ spawn_events[base + i].entity \in new
              /\ spawn_events[base + i].ty = snap.queue[i].ty
              /\ BuiltFrom(spawn_events[base + i].entity, snap.queue[i])
        /\ \A i, j \in 1..K :
              i # j => spawn_events[base + i].entity # spawn_events[base + j].entity

\* A second run that drained two different requests has returned.
C3_Witness ==
    /\ dpc = "idle" /\ Unraced
    /\ Len(snap.queue) = 2
    /\ snap.queue[1] # snap.queue[2]
    /\ snap.events # <<>>
    /\ Len(spawn_events) = Len(snap.events) + 2

\* C4 - Initial position has no history: every entity that has a position
\* component has current = previous = the position of the request it was
\* created from.
C4_InitialPositionNoHistory ==
    \A i \in 1..Len(created) :
        created[i] \in DOMAIN positions =>
            /\ i <= Len(popped)
            /\ positions[created[i]].current = positions[created[i]].previous
            /\ positions[created[i]].current = popped[i].position

\* A run has returned after creating two entities at different positions.
C4_Witness ==
    /\ dpc = "idle"
    /\ Len(created) >= 2
    /\ created[1] \in DOMAIN positions
    /\ created[2] \in DOMAIN positions
    /\ positions[created[1]] # positions[created[2]]
    /\ positions[created[2]].previous = <<5, 0, 0>>

\* C5 - Idempotent emptiness: every step run takes while the queue is empty
\* (being invoked, or the pop that fails) leaves the queue, the entity
\* store and the event channel unchanged and creates nothing.
C5_IdempotentEmptiness ==
    [][(queue = <<>> /\ dpc \in {"idle", "pop", "return"} /\ dpc' # dpc) =>
          /\ dpc' \in {"idle", "pop", "return"}
          /\ request' = None
          /\ entity' = None
          /\ UNCHANGED <<queue, storeVars, spawn_events>>]_vars

\* A run on an empty queue has returned, after an earlier run had created
\* entities, and left the store and the channel as it found them.
C5_Witness ==
    /\ dpc = "idle" /\ Unraced
    /\ snap.queue = <<>>
    /\ snap.entities # {}
    /\ queue = <<>>
    /\ entities = snap.entities
    /\ spawn_events = snap.events

\* The entity e carries at least one of the five components.
HasSome(e) ==
    \/ e \in DOMAIN positions
    \/ e \in DOMAIN velocities
    \/ e \in DOMAIN metadatas
    \/ e \in DOMAIN types
    \/ e \in DOMAIN item_markers

\* C6 - Fatal on unsupported kind: a popped request whose kind is not Item is
\* the last request popped; the run is still building its entity or has
\* panicked, it has published no event for it, the step that leaves the
\* match with such a request is the panic, and a panicked run does nothing
\* more (pops nothing, creates nothing, publishes nothing).
C6_FatalOnUnsupportedKind ==
    /\ [](\A i \in 1..Len(popped) :
            popped[i].ty # "Item" =>
                /\ i = Len(popped)
                /\ Len(spawn_events) < i
                /\ dpc \in {"create", "positions", "velocities", "metadatas",
                            "types", "marker", "panicked"})
    /\ [][(dpc = "marker" /\ request[1].ty # "Item" /\ dpc' # dpc) =>
              (dpc' = "panicked" /\ UNCHANGED <<queue, spawn_events>>)]_vars
    /\ [][dpc = "panicked" =>
              (dpc' = "panicked"
               /\ UNCHANGED <<storeVars, spawn_events, popped, created>>)]_vars

\* The run panicked on the second request while a later one was still
\* pending; only the first request has an event.
C6_Witness ==
    /\ dpc = "panicked"
    /\ Len(popped) = 2
    /\ popped[2].ty # "Item"
    /\ Len(spawn_events) = 1
    /\ queue # <<>>

C8_EventuallyDrained ==
    /\ []<>(/\ popped = pushed
            /\ Len(spawn_events) = Len(pushed)
            /\ \A k \in 1..Len(pushed) :
                  BuiltFrom(spawn_events[k].entity, pushed[k]))
    /\ [][queue' # queue =>
            \/ \E p \in Producers :
                  /\ prod[p].pc = "push"
                  /\ queue' = Append(queue, prod[p].request[1])
            \/ /\ dpc = "pop"
               /\ queue # <<>>
               /\ queue' = Tail(queue)
               /\ request' = Some(Head(queue))]_vars

\* Every request of a full run of the producers has an event and an entity,
\* some of them pushed while a run was popping.
C8_Witness ==
    /\ Len(pushed) = MaxSpawns
    /\ Len(spawn_events) = MaxSpawns
    /\ \A k \in 1..MaxSpawns : BuiltFrom(spawn_events[k].entity, pushed[k])
    /\ during > 0
    /\ dpc = "idle"

\* C9 as stated - Requests appended during the drain are deferred: a run
\* creates entities only for the requests that were pending when it began.
C9_DeferredToNextTick ==
    Cardinality(entities \ snap.entities) <= Len(snap.queue)

\* C9 amended - once a run has made the pop that found the queue empty, it
\* has created one entity and one event for each request pending when it
\* began and for each request whose push completed before that pop, in push
\* order; the requests pushed after that pop are all still queued.
C9_MaterializedUntilEmptyPop ==
    (dpc \in {"return", "idle"}) =>
        LET K == Len(snap.queue) + during
            base == Len(snap.events)
            last == snap.npushed + during
        IN
        /\ last <= Len(pushed)
        /\ Cardinality(entities \ snap.entities) = K
        /\ Len(spawn_events) = base + K
        /\ \A i \in 1..K :
              LET r == (snap.queue \o SubSeq(pushed, snap.npushed + 1, last))[i] IN
              /\ spawn_events[base + i].entity \in entities \ snap.entities
              /\ BuiltFrom(spawn_events[base + i].entity, r)
        /\ queue = SubSeq(pushed, last + 1, Len(pushed))

\* A run began with one request pending, materialized a different request
\* pushed while it was popping, and left one pushed after its last pop.
C9_Witness ==
    /\ dpc = "idle"
    /\ Len(snap.queue) = 1
    /\ during = 1
    /\ Cardinality(entities \ snap.entities) = 2
    /\ Len(queue) = 1
    /\ pushed[snap.npushed + 1] # snap.queue[1]

\* C10 - FIFO order: the requests popped so far followed by the queued ones
\* are the requests in the order their pushes completed; the i-th event names
\* the i-th entity created, built from the i-th request pushed; and a pop on
\* an empty queue returns no request.
C10_FifoOrder ==
    /\ [](/\ popped \o queue = pushed
          /\ Len(spawn_events) <= Len(created)
          /\ \A i \in 1..Len(spawn_events) :
                /\ spawn_events[i].entity = created[i]
                /\ BuiltFrom(created[i], pushed[i]))
    /\ [][(dpc = "pop" /\ queue = <<>> /\ dpc' # dpc) =>
              (request' = None /\ popped' = popped /\ queue' = queue)]_vars

\* Two different requests were pushed in the opposite order of their calls
\* and have been popped and materialized in push order.
C10_Witness ==
    /\ Len(spawn_events) >= 2
    /\ popped[1] # popped[2]
    /\ Matches(popped[1], calls[2])
    /\ ~Matches(popped[1], calls[1])
    /\ dpc = "idle"

\* The kind, the metadata tag and the extra tag of r agree on Item, and the
\* metadata carries the stack that extra carries.
TagsAgree(r) ==
    /\ r.ty = "Item"
    /\ r.meta.tag = "Item"
    /\ r.extra.tag = "Item"
    /\ r.meta.data.item = Some(r.extra.item)

\* C11 - Tag agreement: every request in the queue (and every request a
\* producer is about to push or the drain has popped) has kind, metadata tag
\* and extra tag Item and the same stack in metadata and extra; so the drain
\* never reaches the unsupported-kind arm: it never panics.
C11_TagAgreement ==
    /\ \A i \in 1..Len(queue) : TagsAgree(queue[i])
    /\ \A p \in Producers : prod[p].pc = "push" => TagsAgree(prod[p].request[1])
    /\ request # None => TagsAgree(request[1])
    /\ dpc = "marker" => MarkerImplemented(request[1].ty)
    /\ dpc # "panicked"

\* The drain is at the match with an Item request while two requests with
\* different stacks are queued.
C11_Witness ==
    /\ dpc = "marker"
    /\ Len(queue) = 2
    /\ queue[1].extra.item # queue[2].extra.item
    /\ request[1].ty = "Item"

\* C12 - Append never blocks and never fails: a producer inside spawn_item
\* can always take its push step, whatever the other producers and the drain
\* are doing, an idle producer can always enter spawn_item (up to the bound
\* of the model), and the push step adds exactly one request, the
\* producer's, at the end of the queue.
C12_AppendNeverBlocks ==
    /\ [](\A p \in Producers :
            /\ prod[p].pc = "push" => ENABLED SpawnItemPush(p)
            /\ (prod[p].pc = "idle" /\ Appends < MaxSpawns) =>
                  ENABLED (\E i \in Inputs :
                              SpawnItemBuild(p, i.position, i.velocity, i.item)))
    /\ [][\A p \in Producers :
            (prod[p].pc = "push" /\ prod'[p].pc = "idle") =>
                /\ Len(queue') = Len(queue) + 1
                /\ SubSeq(queue', 1, Len(queue)) = queue
                /\ queue'[Len(queue')] = prod[p].request[1]]_vars

\* A producer has pushed onto a queue of two while the other producer was
\* also at its push and the drain was between two statements of its loop.
C12_Witness ==
    /\ Len(queue) = 2
    /\ Len(pushed) = 3
    /\ prod[1].pc = "idle"
    /\ prod[2].pc = "idle"
    /\ during = 2
    /\ dpc = "velocities"

\* C13 - The spawn event channel is an append-only log: every step leaves
\* the events already published in place, unaltered and in order, and adds
\* at most one event, at the end; so a reader that has read the first n
\* events finds exactly the unread ones after position n.
C13_AppendOnlyLog ==
    [][/\ Len(spawn_events') >= Len(spawn_events)
       /\ Len(spawn_events') <= Len(spawn_events) + 1
       /\ SubSeq(spawn_events', 1, Len(spawn_events)) = spawn_events]_vars

\* A later run has published an event behind the events of an earlier run.
C13_Witness ==
    /\ snap.events # <<>>
    /\ Len(spawn_events) > Len(snap.events)
    /\ SubSeq(spawn_events, 1, Len(snap.events)) = snap.events
    /\ dpc = "pop"

\* C14 - Spawning is deferred: a step of spawn_item changes nothing but the
\* producer's own position and the queue, which it extends by exactly one
\* request; the store and the channel change only in a step of run; and the
\* queue shrinks only in run's pop.
C14_SpawningIsDeferred ==
    /\ [][prod' # prod =>
            /\ UNCHANGED <<dpc, request, entity, storeVars, spawn_events>>
            /\ \/ queue' = queue
               \/ \E p \in Producers :
                     /\ prod[p].pc = "push"
                     /\ queue' = Append(queue, prod[p].request[1])]_vars
    /\ [][(storeVars' # storeVars \/ spawn_events' # spawn_events) =>
            (prod' = prod /\ queue' = queue /\ dpc # "idle" /\ dpc' # dpc)]_vars
    /\ [][(Len(queue') < Len(queue)
           \/ SubSeq(queue', 1, Len(queue)) # queue) =>
            (prod' = prod /\ dpc = "pop" /\ dpc' = "create")]_vars

\* Both producers have returned from spawn_item, two requests are queued, and
\* no entity and no event exists although run has been invoked before.
C14_Witness ==
    /\ AllReturned
    /\ Len(queue) = 2
    /\ entities = {}
    /\ spawn_events = <<>>
    /\ positions = EmptyTable
    /\ dpc = "return"

\* C15 - Event-to-entity pairing: the i-th event names the i-th entity
\* created and carries the kind of the i-th request popped, which is the
\* kind stored for that entity; no two events name the same entity; and
\* between two iterations of the loop there is exactly one event per popped
\* request.
C15_EventEntityPairing ==
    /\ Len(spawn_events) <= Len(created)
    /\ Len(created) <= Len(popped)
    /\ \A i \in 1..Len(spawn_events) :
          /\ spawn_events[i].entity = created[i]
          /\ spawn_events[i].ty = popped[i].ty
          /\ created[i] \in DOMAIN types
          /\ types[created[i]] = popped[i].ty
    /\ \A i, j \in 1..Len(spawn_events) :
          i # j => spawn_events[i].entity # spawn_events[j].entity
    /\ dpc \in {"idle", "pop", "return"} => Len(spawn_events) = Len(popped)

\* One run has published three events for three entities.
C15_Witness ==
    /\ Len(spawn_events) = 3
    /\ snap.events = <<>>
    /\ spawn_events[3].entity = created[3]
    /\ spawn_events[1].entity # spawn_events[3].entity
    /\ dpc = "return"

\* C16 - Queue is empty after a drain: when run has left its loop and no
\* producer has pushed since it was invoked, the queue is empty and each
\* request queued at the invocation has been popped and has its entity and
\* its event; nothing is carried over.
C16_EmptyAfterDrain ==
    (dpc \in {"return", "idle"} /\ Len(pushed) = snap.npushed) =>
        /\ queue = <<>>
        /\ SubSeq(popped, snap.npopped + 1, Len(popped)) = snap.queue
        /\ Len(spawn_events) = Len(snap.events) + Len(snap.queue)
        /\ Cardinality(entities \ snap.entities) = Len(snap.queue)

\* A run that was invoked with three requests queued has left its loop.
C16_Witness ==
    /\ dpc = "return"
    /\ Len(pushed) = snap.npushed
    /\ Len(snap.queue) = 3
    /\ queue = <<>>

\* C17 - Drain termination: under the fairness of the drain every invocation
\* of run returns; a run not raced by a producer leaves its loop after as
\* many successful pops as there were requests queued at its invocation;
\* and the failing pop is the last pop of the invocation (the step after it
\* is the return).
C17_DrainTerminates ==
    /\ []<>(dpc = "idle")
    /\ []((dpc \in {"return", "idle"} /\ Unraced) =>
            Len(popped) - snap.npopped = Len(snap.queue))
    /\ []((dpc \notin {"return", "idle"} /\ Unraced) =>
            Len(popped) - snap.npopped + Len(queue) = Len(snap.queue))
    /\ [][(dpc = "pop" /\ queue = <<>> /\ dpc' # dpc) => dpc' = "return"]_vars
    /\ [][(dpc = "return" /\ dpc' # dpc) => (dpc' = "idle" /\ popped' = popped)]_vars

\* A second run, invoked with two requests queued and not raced, has
\* returned after two successful pops.
C17_Witness ==
    /\ dpc = "idle"
    /\ Unraced
    /\ snap.npopped = 1
    /\ Len(snap.queue) = 2
    /\ Len(popped) = 3

\* C18 - Fresh identities: the identities created are pairwise distinct; the
\* identity run creates is not alive before and carries no component; each
\* insertion targets an alive identity that does not have that component
\* yet, so no unwrap fails and run never panics; and no two events carry the
\* same identity.
C18_FreshIdentities ==
    /\ [](/\ Distinct(created)
          /\ Cardinality(entities) = Len(created)
          /\ \A i, j \in 1..Len(spawn_events) :
                i # j => spawn_events[i].entity # spawn_events[j].entity
          /\ dpc \in {"positions", "velocities", "metadatas", "types",
                      "marker", "event"} => entity[1] \in entities
          /\ dpc = "positions" => entity[1] \notin DOMAIN positions
          /\ dpc = "velocities" => entity[1] \notin DOMAIN velocities
          /\ dpc = "metadatas" => entity[1] \notin DOMAIN metadatas
          /\ dpc = "types" => entity[1] \notin DOMAIN types
          /\ dpc = "marker" => entity[1] \notin DOMAIN item_markers
          /\ dpc # "panicked")
    /\ [][(dpc = "create" /\ dpc' # dpc) =>
            /\ entity'[1] \notin entities
            /\ ~HasSome(entity'[1])
            /\ entities' = entities \cup {entity'[1]}]_vars

\* A later run has created an identity while the identities of an earlier
\* run are alive with all their components.
C18_Witness ==
    /\ dpc = "positions"
    /\ Cardinality(snap.entities) = 2
    /\ Len(created) = 3
    /\ \A e \in snap.entities : HasAll(e)
    /\ entity[1] \notin snap.entities

\* C19 - Event after construction: the step that publishes an event is taken
\* when the loop's entity has all five components, it publishes the event
\* for that entity, and it is followed by the next pop; so every identity in
\* the channel refers to an entity with all five components.
C19_EventAfterConstruction ==
    /\ [](\A i \in 1..Len(spawn_events) :
            /\ spawn_events[i].entity \in entities
            /\ HasAll(spawn_events[i].entity))
    /\ [][spawn_events' # spawn_events =>
            /\ entity # None
            /\ HasAll(entity[1])
            /\ spawn_events'[Len(spawn_events')].entity = entity[1]
            /\ popped' = popped
            /\ UNCHANGED storeVars
            /\ dpc' = "pop"]_vars

\* An event has been published while the entity of the next request is only
\* partly built.
C19_Witness ==
    /\ Len(spawn_events) = 1
    /\ HasAll(spawn_events[1].entity)
    /\ dpc = "metadatas"
    /\ entity[1] \in DOMAIN velocities
    /\ entity[1] \notin DOMAIN types

\* C20 - Conservation under any interleaving: the pushes completed are the
\* requests queued plus the requests popped; events never outnumber the
\* entities created, which never outnumber the popped requests; and the
\* three numbers are equal whenever no run is in progress.
C20_Conservation ==
    /\ Len(pushed) = Len(queue) + Len(popped)
    /\ Len(spawn_events) <= Cardinality(entities)
    /\ Cardinality(entities) <= Len(popped)
    /\ dpc = "idle" =>
          /\ Len(spawn_events) = Cardinality(entities)
          /\ Cardinality(entities) = Len(popped)

\* In the middle of a raced run the three numbers differ and a request is
\* still queued.
C20_Witness ==
    /\ during = 1
    /\ dpc = "create"
    /\ Len(popped) = 2
    /\ Cardinality(entities) = 1
    /\ Len(spawn_events) = 1
    /\ Len(queue) = 1
    /\ Len(pushed) = 3

====
